---- MODULE Spec2Model ----
(***************************************************************************)
(* The POST /generate-confluence pipeline of the Confluence gateway, in    *)
(* its two revisions: src/server.js and src/unnamed/part_000.              *)
(*                                                                         *)
(* One server process runs one revision (rev).  Requests are handled       *)
(* concurrently; JavaScript runs every synchronous stretch of a callback   *)
(* to completion, so each action below is one such stretch:                *)
(*   Arrive       the request reaches upload.any()                         *)
(*   AcceptPart   multer takes one file part (fileFilter, filename, write) *)
(*   RejectPart   fileFilter refuses a part: multer aborts the request     *)
(*   Handle       the route handler, from its first line to await axios    *)
(*   Stream       the payload's read streams read the stored files         *)
(*   Settle       axios.post settles; the handler runs to its end          *)
(*   Timeout      axios's timeout settles the call (part_000 only)         *)
(*   Disconnect   the client closes the inbound connection                 *)
(*   Tick         Date.now() moves to the next millisecond                 *)
(*                                                                         *)
(* Spec runs NumReq requests concurrently over few inputs; SpecOne,        *)
(* SpecMeta and SpecUrl run one request over all the uploads, all the      *)
(* forms and all the upstream answers; SpecLive runs one request with a    *)
(* client that may leave and an upstream that may stay silent.             *)
(*                                                                         *)
(* JavaScript values are sequences of strings: a string is the sequence of *)
(* its characters, and undefined, true and false are the one-element       *)
(* sequences Undefined, JsTrue and JsFalse.                                *)
(***************************************************************************)
EXTENDS Integers, Sequences, FiniteSets, TLC

\* ------------------------------------------------------------- bounds
NumReq == 2
MaxParts == 2
MaxClock == 2

Reqs == 1..NumReq
Revs == {"server.js", "part_000"}

\* The originalname values uploads carry.
Names == {"a.txt", "b.txt"}

\* The mimetype values uploads carry.
Mimes == {"text/plain", "application/json"}

\* ------------------------------------------------------- JS values
Undefined == <<"undefined">>
JsTrue == <<"true">>
JsFalse == <<"false">>

\* !v of a string or undefined
Falsy(v) == v = Undefined \/ v = <<>>

\* The values the two required text fields take: missing, empty, present
\* (a title with one blank, and one with a run of two blanks).
TextVals == {Undefined, <<>>, <<"A", " ", "B">>, <<"A", " ", "\t", "B">>}
KeyVals == {Undefined, <<>>, <<"K">>}

\* The values an optional text field takes: missing, empty, present.
OptVals == {Undefined, <<>>, <<"x">>}

\* The hasFiles a client sends: none, or the text "true" or "false".
ClientHasFiles == {Undefined, <<"t", "r", "u", "e">>, <<"f", "a", "l", "s", "e">>}

\* ------------------------------------------------- multer configuration
allowedFields == <<"tddIrdFiles", "postmanFiles", "commFiles", "files">>

\* The field names file parts arrive under: the allowed ones and another.
InboundFields == {allowedFields[i] : i \in 1..Len(allowedFields)} \cup {"randomField"}

\* A filter that lets every field name through.
fileFilterAcceptAll(fieldname) == TRUE

fileFilter(fieldname) == \E i \in 1..Len(allowedFields) : allowedFields[i] = fieldname

\* Date.now() + '-' + file.originalname under uploads/.  Date.now() prints
\* as digits only, so the text up to the first '-' is the time and the
\* rest the name: the stored path is the pair.
filename(t, originalname) == <<t, originalname>>

Paths == (1..MaxClock) \X Names

NoFile == <<0, 0>>

\* -------------------------------------------------------- upstream
URLFieldsNone == [pageURL |-> Undefined, pageUrl |-> Undefined,
                  confluencePageUrl |-> Undefined, url |-> Undefined,
                  error |-> Undefined]

\* The values a URL field of the upstream's answer takes: missing, empty, or
\* a URL that names the field it came in.
URLVals(field) == {Undefined, <<>>, <<"https://wiki/", field>>}

OkBodies ==
    {[pageURL |-> a, pageUrl |-> b, confluencePageUrl |-> c, url |-> d,
      error |-> Undefined] :
        a \in URLVals("pageURL"), b \in URLVals("pageUrl"),
        c \in URLVals("confluencePageUrl"), d \in URLVals("url")}

ErrBodies == {[URLFieldsNone EXCEPT !.error = <<"upstream refused">>]}

ErrStatuses == {404, 503}

NoOutcome == [kind |-> "none", status |-> 0, data |-> URLFieldsNone, message |-> <<>>]

Outcomes ==
    {[kind |-> "ok", status |-> 200, data |-> d, message |-> <<>>] : d \in OkBodies}
    \cup {[kind |-> "status", status |-> s, data |-> d,
           message |-> <<"Request failed with status code">>] :
              s \in ErrStatuses, d \in ErrBodies}
    \cup {[kind |-> "noResponse", status |-> 0, data |-> URLFieldsNone,
           message |-> <<"timeout or network error">>]}
    \cup {[kind |-> "setup", status |-> 0, data |-> URLFieldsNone,
           message |-> <<"Invalid URL">>]}

VARIABLES
    rev,            \* the revision this server runs
    now,            \* Date.now()
    store,          \* uploads/: path -> <<request, file index>> that wrote it, or NoFile
    pc,             \* per request: idle, intake, awaiting, done, rejected
    multipart,      \* per request: is the content type multipart (multer parses it)
    files,          \* req.files (empty and unused when not multipart: undefined)
    body,           \* req.body as the handler sees it
    handlerRan,     \* the route handler was invoked
    outbound,       \* the parts appended to formData
    posts,          \* number of axios.post calls issued
    streamed,       \* what each file part's read stream read
    up,             \* how axios.post settled
    attempts,       \* per file: number of unlink attempts
    cleanupErrors,  \* the deletion failures logged: the files' indices, in order
    responses,      \* the responses sent to the client, in order
    closed          \* per request: the client closed the inbound connection

vars == <<rev, now, store, pc, multipart, files, body, handlerRan, outbound,
          posts, streamed, up, attempts, cleanupErrors, responses, closed>>

\* req.body: the two required fields, two of the optional text fields (the
\* first, apiType, and appName; the handler treats all thirteen alike) and
\* the client's hasFiles.
NoBody == [isObject |-> FALSE, pageToBeCreatedTitle |-> Undefined,
           wikiSpaceKey |-> Undefined, apiType |-> Undefined,
           appName |-> Undefined, hasFiles |-> Undefined]

Bodies == {[isObject |-> TRUE, pageToBeCreatedTitle |-> t, wikiSpaceKey |-> k,
            apiType |-> a, appName |-> n, hasFiles |-> h] :
              t \in TextVals, k \in KeyVals, a \in OptVals, n \in OptVals,
              h \in ClientHasFiles}

Init ==
    /\ rev \in Revs
    /\ now = 1
    /\ store = [p \in Paths |-> NoFile]
    /\ pc = [r \in Reqs |-> "idle"]
    /\ multipart = [r \in Reqs |-> FALSE]
    /\ files = [r \in Reqs |-> <<>>]
    /\ body = [r \in Reqs |-> NoBody]
    /\ handlerRan = [r \in Reqs |-> FALSE]
    /\ outbound = [r \in Reqs |-> <<>>]
    /\ posts = [r \in Reqs |-> 0]
    /\ streamed = [r \in Reqs |-> <<>>]
    /\ up = [r \in Reqs |-> NoOutcome]
    /\ attempts = [r \in Reqs |-> <<>>]
    /\ cleanupErrors = [r \in Reqs |-> <<>>]
    /\ responses = [r \in Reqs |-> <<>>]
    /\ closed = [r \in Reqs |-> FALSE]

\* ------------------------------------------------------------ fs
\* fs.unlinkSync / fs.unlink of path p in store st.  It throws when the file
\* is not there (ENOENT) or when the file system refuses (faulty: EACCES,
\* EBUSY, EIO), and then leaves the store as it is.
unlinkSync(st, p, faulty) ==
    IF st[p] = NoFile \/ faulty
    THEN [store |-> st, threw |-> TRUE]
    ELSE [store |-> [st EXCEPT ![p] = NoFile], threw |-> FALSE]

\* req.files.forEach(file => unlinkSync(file.path)) from file i on, started in
\* c = [store, att, errs, threw].  F: the indices of the files whose unlink
\* the file system refuses.  guarded: each unlink sits in its own try/catch
\* that logs; unguarded, the first throw leaves the loop.
\* A loop that the first failing unlink ends, caught or not.
RECURSIVE forEachUnlinkStops(_, _, _, _, _)
forEachUnlinkStops(c, fs, F, i, guarded) ==
    IF i > Len(fs) THEN c
    ELSE LET u == unlinkSync(c.store, fs[i].path, i \in F)
             c1 == [store |-> u.store,
                    att |-> [c.att EXCEPT ![i] = @ + 1],
                    errs |-> IF u.threw /\ guarded THEN Append(c.errs, i) ELSE c.errs,
                    threw |-> u.threw /\ ~guarded]
         IN  IF u.threw THEN c1 ELSE forEachUnlinkStops(c1, fs, F, i + 1, guarded)

RECURSIVE forEachUnlink(_, _, _, _, _)
forEachUnlink(c, fs, F, i, guarded) ==
    IF i > Len(fs) THEN c
    ELSE LET u == unlinkSync(c.store, fs[i].path, i \in F)
             c1 == [store |-> u.store,
                    att |-> [c.att EXCEPT ![i] = @ + 1],
                    errs |-> IF u.threw /\ guarded THEN Append(c.errs, i) ELSE c.errs,
                    threw |-> u.threw /\ ~guarded]
         IN  IF c1.threw THEN c1 ELSE forEachUnlink(c1, fs, F, i + 1, guarded)

\* A clean-up that unlinks nothing.
cleanupSkipped(c, mp, fs, F, guarded) == c

\* if (req.files && req.files.length > 0) { req.files.forEach(...) }
cleanup(c, mp, fs, F, guarded) ==
    IF mp /\ Len(fs) > 0 THEN forEachUnlink(c, fs, F, 1, guarded) ELSE c

\* multer, aborting a request: every file it stored for the request is
\* unlinked, and the failures are collected (storageErrors).
removeUploadedFiles(c, fs, F) == forEachUnlink(c, fs, F, 1, TRUE)

CleanupStart(r) ==
    [store |-> store, att |-> attempts[r], errs |-> cleanupErrors[r], threw |-> FALSE]

\* ------------------------------------------------------- responses
Json(status, b) == [status |-> status, ctype |-> "json", body |-> b]

\* Express's default error handler: no error middleware is registered, the
\* error carries no status, so the answer is 500 with an HTML page.
DefaultErrorPage(msg) == [status |-> 500, ctype |-> "html", body |-> [html |-> msg]]

\* --------------------------------------------------------- intake
Arrive(r, mp) ==
    /\ pc[r] = "idle"
    /\ \A q \in Reqs : q < r => pc[q] # "idle"
    /\ pc' = [pc EXCEPT ![r] = "intake"]
    /\ multipart' = [multipart EXCEPT ![r] = mp]
    /\ UNCHANGED <<rev, now, store, files, body, handlerRan, outbound, posts,
                   streamed, up, attempts, cleanupErrors, responses, closed>>

\* A file part under an allowed field name: it is written to
\* uploads/<Date.now()>-<originalname>, replacing what was there.
AcceptPart(r, fieldname, originalname, mimetype) ==
    /\ pc[r] = "intake"
    /\ multipart[r]
    /\ Len(files[r]) < MaxParts
    /\ fileFilter(fieldname)
    /\ LET p == filename(now, originalname)
           file == [fieldname |-> fieldname, originalname |-> originalname,
                    mimetype |-> mimetype, path |-> p]
       IN  /\ files' = [files EXCEPT ![r] = Append(@, file)]
           /\ store' = [store EXCEPT ![p] = <<r, Len(files[r]) + 1>>]
           /\ attempts' = [attempts EXCEPT ![r] = Append(@, 0)]
    /\ UNCHANGED <<rev, now, pc, multipart, body, handlerRan, outbound, posts,
                   streamed, up, cleanupErrors, responses, closed>>

\* A file part under any other field name: fileFilter passes an Error, multer
\* removes the files it stored for the request and passes the error on; the
\* route handler is not called and Express answers.
RejectPart(r, fieldname, F) ==
    /\ pc[r] = "intake"
    /\ multipart[r]
    /\ ~fileFilter(fieldname)
    /\ F \subseteq 1..Len(files[r])
    /\ LET c == removeUploadedFiles(CleanupStart(r), files[r], F)
       IN  /\ store' = c.store
           /\ attempts' = [attempts EXCEPT ![r] = c.att]
           /\ cleanupErrors' = [cleanupErrors EXCEPT ![r] = c.errs]
    /\ responses' = [responses EXCEPT
                        ![r] = Append(@, DefaultErrorPage(<<"Unexpected field: ", fieldname>>))]
    /\ pc' = [pc EXCEPT ![r] = "rejected"]
    /\ UNCHANGED <<rev, now, multipart, files, body, handlerRan, outbound, posts,
                   streamed, up, closed>>

Tick ==
    /\ now < MaxClock
    /\ now' = now + 1
    /\ UNCHANGED <<rev, store, pc, multipart, files, body, handlerRan, outbound,
                   posts, streamed, up, attempts, cleanupErrors, responses, closed>>

\* -------------------------------------------------------- handler
\* The title check alone.
requiredFieldErrorTitleOnly(b) ==
    IF Falsy(b.pageToBeCreatedTitle) THEN <<"pageToBeCreatedTitle is required">>
    ELSE <<>>

\* The two required-field checks; <<>> when both fields are there.
requiredFieldError(b) ==
    IF Falsy(b.pageToBeCreatedTitle) THEN <<"pageToBeCreatedTitle is required">>
    ELSE IF Falsy(b.wikiSpaceKey) THEN <<"wikiSpaceKey is required">>
    ELSE <<>>

\* JSON.stringify of an object: a property whose value is undefined is left out.
JSONstringify(o) == [k \in {k \in DOMAIN o : o[k] # Undefined} |-> o[k]]

\* The object serialised into the 'data' part.
\* A data object that fills in a name for a missing or empty appName.
pageDataDefaults(revision, b, mp, fs) ==
    [apiType |-> b.apiType,
     wikiSpaceKey |-> b.wikiSpaceKey,
     pageToBeCreatedTitle |-> b.pageToBeCreatedTitle,
     appName |-> IF b.appName \in {Undefined, <<>>} THEN <<"unnamed">> ELSE b.appName,
     hasFiles |-> IF Len(fs) > 0 THEN JsTrue ELSE JsFalse]

\* server.js sends req.body as it came; part_000 builds the object from the
\* fields it destructured and sets hasFiles to req.files && req.files.length
\* > 0, which is undefined when req.files is.
pageData(revision, b, mp, fs) ==
    IF revision = "server.js"
    THEN [k \in DOMAIN b \ {"isObject"} |-> b[k]]
    ELSE [apiType |-> b.apiType,
          wikiSpaceKey |-> b.wikiSpaceKey,
          pageToBeCreatedTitle |-> b.pageToBeCreatedTitle,
          appName |-> b.appName,
          hasFiles |-> IF ~mp THEN Undefined
                       ELSE IF Len(fs) > 0 THEN JsTrue ELSE JsFalse]

\* The files of one field name, last received first.
categoryReversed(fs, name) ==
    LET c == SelectSeq(fs, LAMBDA f : f.fieldname = name)
    IN  [i \in 1..Len(c) |-> c[Len(c) + 1 - i]]

\* req.files.filter(file => file.fieldname === name)
category(fs, name) == SelectSeq(fs, LAMBDA f : f.fieldname = name)

\* formData.append(file.fieldname, fs.createReadStream(file.path),
\*                 { filename: file.originalname, contentType: file.mimetype })
filePart(f) == [field |-> f.fieldname, filename |-> f.originalname,
                contentType |-> f.mimetype, path |-> f.path]

\* The file parts in the order the files were received.
filePartsInbound(fs, k) == [i \in 1..Len(fs) |-> filePart(fs[i])]

\* The four append loops, from the k-th on.
RECURSIVE fileParts(_, _)
fileParts(fs, k) ==
    IF k > Len(allowedFields) THEN <<>>
    ELSE LET cat == category(fs, allowedFields[k])
         IN  [i \in 1..Len(cat) |-> filePart(cat[i])] \o fileParts(fs, k + 1)

\* The formData.append sequence.
assemble(revision, b, mp, fs) ==
    <<[field |-> "data", json |-> JSONstringify(pageData(revision, b, mp, fs))]>>
    \o (IF mp /\ Len(fs) > 0 THEN fileParts(fs, 1) ELSE <<>>)

\* The handler from its first line to await axios.post: it answers at once
\* (respond), throws into its catch block (throw), or issues the call (await).
HandleStep(revision, b, mp, fs) ==
    IF revision = "part_000"
    THEN IF ~b.isObject
         THEN [kind |-> "respond", parts |-> <<>>,
               response |-> Json(400, [status |-> <<"error">>,
                   message |-> <<"Request body is missing or malformed.">>])]
         ELSE IF requiredFieldError(b) # <<>>
         THEN [kind |-> "respond", parts |-> <<>>,
               response |-> Json(400, [status |-> <<"error">>,
                                       message |-> requiredFieldError(b)])]
         ELSE [kind |-> "await", parts |-> assemble(revision, b, mp, fs),
               response |-> Json(0, [none |-> <<>>])]
    ELSE IF ~b.isObject
         \* JSON.stringify(undefined) is undefined, and formData.append('data',
         \* undefined) throws a TypeError
         THEN [kind |-> "throw", parts |-> <<>>, response |-> Json(0, [none |-> <<>>])]
         ELSE [kind |-> "await", parts |-> assemble(revision, b, mp, fs),
               response |-> Json(0, [none |-> <<>>])]

TypeErrorThrown == [kind |-> "setup", status |-> 0, data |-> URLFieldsNone,
                    message |-> <<"TypeError">>]

UnlinkThrown == [kind |-> "setup", status |-> 0, data |-> URLFieldsNone,
                 message |-> <<"ENOENT or EACCES: unlink">>]

\* A catch block that answers every error alike.
catchResponseFlat(revision, o) ==
    Json(500, [error |-> <<"Failed to generate Confluence page">>])

\* The catch block's answer to error o.
catchResponse(revision, o) ==
    IF revision = "server.js"
    THEN Json(500, [error |-> <<"Failed to generate Confluence page">>])
    ELSE IF o.kind = "status"
    THEN Json(o.status, [status |-> <<"error">>, error |-> <<"Mulesoft API error">>,
                         details |-> o.data, message |-> o.message])
    ELSE IF o.kind = "noResponse"
    THEN Json(500, [status |-> <<"error">>, error |-> <<"No response from Mulesoft API">>,
                    message |-> <<"Network or timeout error">>])
    ELSE Json(500, [status |-> <<"error">>,
                    error |-> <<"Failed to generate Confluence page">>,
                    message |-> o.message])

\* a || b
Or(a, b) == IF Falsy(a) THEN b ELSE a

IsWs(ch) == ch \in {" ", "\t", "\n"}

RECURSIVE dropWs(_)
dropWs(s) == IF s # <<>> /\ IsWs(Head(s)) THEN dropWs(Tail(s)) ELSE s

\* s.replace(/\s+/g, '+')
RECURSIVE replaceWs(_)
replaceWs(s) ==
    IF s = <<>> THEN <<>>
    ELSE IF IsWs(Head(s)) THEN <<"+">> \o replaceWs(dropWs(Tail(s)))
    ELSE <<Head(s)>> \o replaceWs(Tail(s))

fallbackUrl(b) ==
    <<"https://wiki.intel.com/display/">> \o b.wikiSpaceKey \o <<"/">>
        \o replaceWs(b.pageToBeCreatedTitle)

\* The chain with pageUrl tried before pageURL.
extractPageUrlSwapped(d, b) ==
    Or(d.pageUrl, Or(d.pageURL, Or(d.confluencePageUrl, Or(d.url, fallbackUrl(b)))))

\* response.data?.pageURL || response.data?.pageUrl ||
\* response.data?.confluencePageUrl || response.data?.url || `https://...`
extractPageUrl(d, b) ==
    Or(d.pageURL, Or(d.pageUrl, Or(d.confluencePageUrl, Or(d.url, fallbackUrl(b)))))

\* The handler from the settling of axios.post (as o) to its end: the
\* clean-up state it leaves and the response it sends.
SettleStep(revision, o, c0, mp, fs, F, b) ==
    IF o.kind = "ok"
    THEN IF revision = "part_000"
         THEN [c |-> cleanup(c0, mp, fs, F, TRUE),
               response |-> Json(200,
                   [message |-> <<"Confluence page generated successfully">>,
                    pageUrl |-> extractPageUrl(o.data, b)])]
         ELSE LET c1 == cleanup(c0, mp, fs, F, FALSE)
              IN  IF c1.threw
                  THEN [c |-> cleanup([c1 EXCEPT !.threw = FALSE], mp, fs, F, TRUE),
                        response |-> catchResponse(revision, UnlinkThrown)]
                  ELSE [c |-> c1, response |-> Json(200, JSONstringify(o.data))]
    ELSE [c |-> cleanup(c0, mp, fs, F, TRUE), response |-> catchResponse(revision, o)]

\* The bodies the handler can see: multer sets req.body to an object for a
\* multipart request; otherwise it is what the body parsers left, and
\* server.js registers none.
HandlerBodies(r) ==
    IF multipart[r] THEN Bodies
    ELSE IF rev = "server.js" THEN {NoBody}
    ELSE Bodies \cup {NoBody}

\* A handler that does not wait for the call: the clean-up loop runs in the
\* stretch that issues it.
beforeAwaitUnlinks(c, mp, fs) == cleanup(c, mp, fs, {}, TRUE)

\* What the stretch that issues axios.post does to the uploaded files before
\* it yields at await: nothing; both clean-up loops come after the await.
beforeAwait(c, mp, fs) == c

Handle(r, b) ==
    /\ pc[r] = "intake"
    /\ b \in HandlerBodies(r)
    /\ body' = [body EXCEPT ![r] = b]
    /\ handlerRan' = [handlerRan EXCEPT ![r] = TRUE]
    /\ LET h == HandleStep(rev, b, multipart[r], files[r])
           c == cleanup(CleanupStart(r), multipart[r], files[r], {}, TRUE)
           a == beforeAwait(CleanupStart(r), multipart[r], files[r])
       IN  CASE h.kind = "respond" ->
                  /\ responses' = [responses EXCEPT ![r] = Append(@, h.response)]
                  /\ pc' = [pc EXCEPT ![r] = "done"]
                  /\ UNCHANGED <<store, attempts, cleanupErrors, outbound, posts>>
             [] h.kind = "throw" ->
                  /\ store' = c.store
                  /\ attempts' = [attempts EXCEPT ![r] = c.att]
                  /\ cleanupErrors' = [cleanupErrors EXCEPT ![r] = c.errs]
                  /\ responses' = [responses EXCEPT
                        ![r] = Append(@, catchResponse(rev, TypeErrorThrown))]
                  /\ pc' = [pc EXCEPT ![r] = "done"]
                  /\ UNCHANGED <<outbound, posts>>
             [] OTHER ->
                  /\ outbound' = [outbound EXCEPT ![r] = h.parts]
                  /\ posts' = [posts EXCEPT ![r] = @ + 1]
                  /\ pc' = [pc EXCEPT ![r] = "awaiting"]
                  /\ store' = a.store
                  /\ attempts' = [attempts EXCEPT ![r] = a.att]
                  /\ cleanupErrors' = [cleanupErrors EXCEPT ![r] = a.errs]
                  /\ UNCHANGED responses
    /\ UNCHANGED <<rev, now, multipart, files, streamed, up, closed>>

\* While the call is in flight the read streams of the file parts read what
\* is stored under each part's path at that time.
Stream(r) ==
    /\ pc[r] = "awaiting"
    /\ Len(outbound[r]) > 1
    /\ streamed[r] = <<>>
    /\ streamed' = [streamed EXCEPT
                       ![r] = [i \in 1..(Len(outbound[r]) - 1) |-> store[outbound[r][i + 1].path]]]
    /\ UNCHANGED <<rev, now, store, pc, multipart, files, body, handlerRan,
                   outbound, posts, up, attempts, cleanupErrors, responses, closed>>

\* A handler that sends the request once more when no response came.
resendsOnNoResponse(revision, o) == IF o.kind = "noResponse" THEN 1 ELSE 0

\* The axios.post calls the handler issues after the first one settled as o:
\* there is no loop around the call and no call in the catch block.
resends(revision, o) == 0

Settle(r, o, F) ==
    /\ pc[r] = "awaiting"
    /\ o \in Outcomes
    /\ F \subseteq 1..Len(files[r])
    /\ posts' = [posts EXCEPT ![r] = @ + resends(rev, o)]
    /\ LET s == SettleStep(rev, o, CleanupStart(r), multipart[r], files[r], F, body[r])
       IN  /\ store' = s.c.store
           /\ attempts' = [attempts EXCEPT ![r] = s.c.att]
           /\ cleanupErrors' = [cleanupErrors EXCEPT ![r] = s.c.errs]
           /\ responses' = [responses EXCEPT ![r] = Append(@, s.response)]
    /\ up' = [up EXCEPT ![r] = o]
    /\ pc' = [pc EXCEPT ![r] = "done"]
    /\ UNCHANGED <<rev, now, multipart, files, body, handlerRan, outbound,
                   streamed, closed>>

\* How axios.post settles when its timeout passes with no answer: an error
\* with a request and no response.
TimeoutError == [kind |-> "noResponse", status |-> 0, data |-> URLFieldsNone,
                 message |-> <<"timeout or network error">>]

\* The timer of axios's timeout option fires.  Only part_000 passes the
\* option; the firing time is abstracted: any moment while the call is in
\* flight.
Timeout(r, F) ==
    /\ rev = "part_000"
    /\ Settle(r, TimeoutError, F)

\* The client closes the inbound connection during the upload or while the
\* call is in flight.  Neither revision listens for it: what was received
\* is still processed, the handler goes on, and what it sends afterwards
\* goes to a closed socket.  (An upload cut short never completes: the
\* request then takes no further step.)
Disconnect(r) ==
    /\ pc[r] \in {"intake", "awaiting"}
    /\ ~closed[r]
    /\ closed' = [closed EXCEPT ![r] = TRUE]
    /\ UNCHANGED <<rev, now, store, pc, multipart, files, body, handlerRan,
                   outbound, posts, streamed, up, attempts, cleanupErrors,
                   responses>>

\* The inputs of the concurrent specification: uploads of one name and type
\* under one allowed field or the disallowed one; a complete form, one with
\* an empty title and one without space key, none with optional fields; an
\* upstream that answers without a URL, refuses or stays silent.
ConcNames == {"a.txt"}

ConcMimes == {"text/plain"}

ConcFields == {"tddIrdFiles", "randomField"}

\* The forms that carry the two required fields only.
RequiredOnly ==
    {b \in Bodies : b.apiType = Undefined /\ b.appName = Undefined
                      /\ b.hasFiles = Undefined}

ConcBodies ==
    {NoBody} \cup
    {b \in RequiredOnly :
        /\ b.pageToBeCreatedTitle \in {<<>>, <<"A", " ", "B">>}
        /\ b.wikiSpaceKey # <<>>
        /\ (b.pageToBeCreatedTitle = <<>> => b.wikiSpaceKey # Undefined)}

ConcOutcomes ==
    {o \in Outcomes :
        /\ o.kind # "setup"
        /\ o.status # 503
        /\ o.data \in {URLFieldsNone, [URLFieldsNone EXCEPT !.error = <<"upstream refused">>]}}

\* NumReq requests handled concurrently.
Next ==
    \/ \E r \in Reqs, mp \in BOOLEAN : Arrive(r, mp)
    \/ \E r \in Reqs, f \in ConcFields, n \in ConcNames, m \in ConcMimes :
          AcceptPart(r, f, n, m)
    \/ \E r \in Reqs, f \in ConcFields, F \in SUBSET (1..MaxParts) : RejectPart(r, f, F)
    \/ \E r \in Reqs, b \in ConcBodies : Handle(r, b)
    \/ \E r \in Reqs : Stream(r)
    \/ \E r \in Reqs, o \in ConcOutcomes, F \in SUBSET (1..MaxParts) : Settle(r, o, F)
    \/ \E r \in Reqs, F \in SUBSET (1..MaxParts) : Timeout(r, F)
    \/ Tick

Spec == Init /\ [][Next]_vars

\* The inputs of the one-request specification of the upload: every field
\* name, file name and type; every combination of the required fields; an
\* upstream that answers with or without pageURL, or fails in any way.
OneBodies == {NoBody} \cup {b \in RequiredOnly : b.pageToBeCreatedTitle # <<"A", " ", "\t", "B">>}

OneOutcomes ==
    {o \in Outcomes :
        /\ o.status # 503
        /\ o.kind = "ok" =>
             o.data \in {URLFieldsNone,
                         [URLFieldsNone EXCEPT !.pageURL = <<"https://wiki/", "pageURL">>]}}

\* One request, over the inputs of the upload.
NextOne ==
    \/ \E mp \in BOOLEAN : Arrive(1, mp)
    \/ \E f \in InboundFields, n \in Names, m \in Mimes : AcceptPart(1, f, n, m)
    \/ \E f \in InboundFields, F \in SUBSET (1..MaxParts) : RejectPart(1, f, F)
    \/ \E b \in OneBodies : Handle(1, b)
    \/ Stream(1)
    \/ \E o \in OneOutcomes, F \in SUBSET (1..MaxParts) : Settle(1, o, F)
    \/ \E F \in SUBSET (1..MaxParts) : Timeout(1, F)
    \/ Tick

SpecOne == Init /\ [][NextOne]_vars

\* One request, over the forms: every combination of the required fields,
\* the optional fields and the client's hasFiles, with the uploads and the
\* upstream of the one-request specification above narrowed to one file
\* name, type and allowed field.
NextMeta ==
    \/ \E mp \in BOOLEAN : Arrive(1, mp)
    \/ \E f \in ConcFields, n \in ConcNames, m \in ConcMimes : AcceptPart(1, f, n, m)
    \/ \E f \in ConcFields, F \in SUBSET (1..MaxParts) : RejectPart(1, f, F)
    \/ \E b \in Bodies \cup {NoBody} : Handle(1, b)
    \/ Stream(1)
    \/ \E o \in OneOutcomes, F \in SUBSET (1..MaxParts) : Settle(1, o, F)
    \/ \E F \in SUBSET (1..MaxParts) : Timeout(1, F)
    \/ Tick

SpecMeta == Init /\ [][NextMeta]_vars

\* The complete forms without optional fields: one per title.
UrlBodies == {b \in RequiredOnly : ~Falsy(b.pageToBeCreatedTitle) /\ ~Falsy(b.wikiSpaceKey)}

\* One request, over the upstream's answers: every combination of the URL
\* fields in a 2xx body, and every failure.
NextUrl ==
    \/ \E mp \in BOOLEAN : Arrive(1, mp)
    \/ \E f \in ConcFields, n \in ConcNames, m \in ConcMimes : AcceptPart(1, f, n, m)
    \/ \E f \in ConcFields, F \in SUBSET (1..MaxParts) : RejectPart(1, f, F)
    \/ \E b \in UrlBodies \cup {NoBody} : Handle(1, b)
    \/ Stream(1)
    \/ \E o \in Outcomes, F \in SUBSET (1..MaxParts) : Settle(1, o, F)
    \/ \E F \in SUBSET (1..MaxParts) : Timeout(1, F)
    \/ Tick

SpecUrl == Init /\ [][NextUrl]_vars

\* One request of the concurrent specification's inputs, with a client that
\* may close its connection and an upstream that may stay silent for ever:
\* nothing obliges Settle to happen.  What Node guarantees is that a timer
\* that was set fires, so Timeout is weakly fair.
NextLive ==
    \/ \E mp \in BOOLEAN : Arrive(1, mp)
    \/ \E f \in ConcFields, n \in ConcNames, m \in ConcMimes : AcceptPart(1, f, n, m)
    \/ \E f \in ConcFields, F \in SUBSET (1..MaxParts) : RejectPart(1, f, F)
    \/ \E b \in ConcBodies : Handle(1, b)
    \/ Stream(1)
    \/ \E o \in ConcOutcomes, F \in SUBSET (1..MaxParts) : Settle(1, o, F)
    \/ \E F \in SUBSET (1..MaxParts) : Timeout(1, F)
    \/ Disconnect(1)
    \/ Tick

SpecLive == Init /\ [][NextLive]_vars /\ WF_vars(\E F \in SUBSET (1..MaxParts) : Timeout(1, F))

\* ------------------------------------------------------------ claims
Terminal(r) == pc[r] \in {"done", "rejected"}

InFlight(r) == pc[r] \in {"intake", "awaiting"}

\* The file the request stored as its i-th is still in the store.
Remains(r, i) == store[files[r][i].path] = <<r, i>>

\* A required field is missing or empty.
MissingRequired(b) ==
    \/ b.pageToBeCreatedTitle \in {Undefined, <<>>}
    \/ b.wikiSpaceKey \in {Undefined, <<>>}

AllowedFieldNames == {"tddIrdFiles", "postmanFiles", "commFiles", "files"}

\* C1: once the handler has answered, none of the files the request wrote
\* is still in uploads/.  Stated here granting the file system's own
\* refusals: a file may remain only if its deletion was attempted.
C1_CleanupComplete ==
    \A r \in Reqs :
        (pc[r] = "done" /\ handlerRan[r]) =>
            \A i \in 1..Len(files[r]) : Remains(r, i) => attempts[r][i] > 0

\* C2: on every exit path of the handler, deletion is attempted exactly once
\* for each file of req.files.
C2_ExactlyOnce ==
    \A r \in Reqs :
        (pc[r] = "done" /\ handlerRan[r]) =>
            \A i \in 1..Len(files[r]) : attempts[r][i] = 1

\* C3: in either revision, a request whose title or space key is missing or
\* empty issues no outbound POST and appends nothing to a payload.
C3_ValidateBeforeForward ==
    \A r \in Reqs :
        (handlerRan[r] /\ MissingRequired(body[r])) =>
            (posts[r] = 0 /\ outbound[r] = <<>>)

\* The part_000 revision, which has the two checks, does validate before it
\* forwards.
Part000ValidatesFirst ==
    \A r \in Reqs :
        (rev = "part_000" /\ handlerRan[r] /\ MissingRequired(body[r])) =>
            (posts[r] = 0 /\ outbound[r] = <<>>)

\* C4: two files accepted by the intake, of one request or of two requests
\* in flight together, have distinct stored paths.
C4_PathsUnique ==
    \A r1, r2 \in Reqs :
        (r1 = r2 \/ (InFlight(r1) /\ InFlight(r2))) =>
            \A i \in 1..Len(files[r1]), j \in 1..Len(files[r2]) :
                (<<r1, i>> # <<r2, j>>) => files[r1][i].path # files[r2][j].path

\* C5: files are never shared between requests: while a request awaits its
\* outbound call with its files not yet read, every file it stored is still
\* there (no other request's clean-up has deleted it), and what its read
\* streams read was written by the request itself.
C5_NeverShared ==
    \A r \in Reqs :
        /\ (pc[r] = "awaiting" /\ streamed[r] = <<>>) =>
               \A i \in 1..Len(files[r]) : store[files[r][i].path] # NoFile
        /\ \A i \in 1..Len(streamed[r]) :
               streamed[r][i] # NoFile => streamed[r][i][1] = r

\* C6: a failing deletion never changes the outcome: after the upstream call
\* succeeded the client gets the 200, and after it failed the client gets the
\* error response that failure determines.
C6_OutcomeKept ==
    \A r \in Reqs :
        pc[r] = "done" =>
            /\ up[r].kind = "ok" =>
                   (Len(responses[r]) = 1 /\ responses[r][1].status = 200)
            /\ up[r].kind \in {"status", "noResponse", "setup"} =>
                   (Len(responses[r]) = 1 /\ responses[r][1] = catchResponse(rev, up[r]))

C8_RejectedIs400 ==
    \A r \in Reqs :
        pc[r] = "rejected" =>
            /\ Len(responses[r]) = 1
            /\ responses[r][1].status = 400
            /\ responses[r][1].ctype = "json"

\* C9: every request that ends has been sent exactly one response, a JSON
\* one, produced by the handler itself.
C9_OneJsonResponse ==
    \A r \in Reqs :
        Terminal(r) =>
            /\ Len(responses[r]) = 1
            /\ responses[r][1].ctype = "json"
            /\ handlerRan[r]

\* The classification of a failed outbound call that C10 states.
Classified(r) ==
    LET resp == responses[r][1] IN
    /\ Len(responses[r]) = 1
    /\ up[r].kind = "status" =>
           /\ resp.status = up[r].status
           /\ DOMAIN resp.body = {"status", "error", "details", "message"}
           /\ resp.body.status = <<"error">>
           /\ resp.body.details = up[r].data
    /\ up[r].kind = "noResponse" =>
           /\ resp.status = 500
           /\ DOMAIN resp.body = {"status", "error", "message"}
           /\ resp.body.error = <<"No response from Mulesoft API">>
    /\ up[r].kind = "setup" =>
           /\ resp.status = 500
           /\ DOMAIN resp.body = {"status", "error", "message"}
           /\ resp.body.error # <<"No response from Mulesoft API">>

\* C10: in both revisions a failed outbound call is answered by its
\* category: the upstream's status and body, 500 "No response from Mulesoft
\* API", or a 500 request-setup error.
C10_Classification ==
    \A r \in Reqs : pc[r] = "done" => Classified(r)

\* The part_000 revision does answer by category.
Part000Classifies ==
    \A r \in Reqs : (rev = "part_000" /\ pc[r] = "done") => Classified(r)

\* The answer of a failed required-field check.
ValidationResponse(msg) == Json(400, [status |-> <<"error">>, message |-> msg])

\* C11: in part_000, the handler given a form answers a missing or empty
\* pageToBeCreatedTitle with exactly one response, 400 {status: "error",
\* message: "pageToBeCreatedTitle is required"}, also when wikiSpaceKey is
\* missing too; a title with a missing or empty wikiSpaceKey with 400 and
\* "wikiSpaceKey is required"; and a form with both with no 400 at all: the
\* outbound call is issued.
C11_ValidationResult ==
    \A r \in Reqs :
        (rev = "part_000" /\ handlerRan[r] /\ body[r].isObject) =>
            LET noTitle == body[r].pageToBeCreatedTitle \in {Undefined, <<>>}
                noKey == body[r].wikiSpaceKey \in {Undefined, <<>>}
            IN  /\ noTitle =>
                     responses[r] = <<ValidationResponse(<<"pageToBeCreatedTitle is required">>)>>
                /\ (~noTitle /\ noKey) =>
                     responses[r] = <<ValidationResponse(<<"wikiSpaceKey is required">>)>>
                /\ (~noTitle /\ ~noKey) =>
                     /\ posts[r] = 1
                     /\ \A i \in 1..Len(responses[r]) : responses[r][i].status # 400

\* A multipart form with a file and an optional field, an empty title and
\* no space key was answered.
C11_Witness ==
    \E r \in Reqs :
        /\ rev = "part_000" /\ handlerRan[r] /\ body[r].isObject
        /\ body[r].pageToBeCreatedTitle = <<>>
        /\ body[r].wikiSpaceKey = Undefined
        /\ body[r].appName = <<"x">>
        /\ Len(files[r]) = 1
        /\ Len(responses[r]) = 1

\* C12: for every request, in both revisions, at most one axios.post is
\* issued: none before the handler issues the call, and exactly one from
\* then on, however the call settles (2xx, an error status, no response, a
\* set-up error).
C12_SingleAttempt ==
    \A r \in Reqs :
        /\ posts[r] <= 1
        /\ posts[r] = 1 <=> outbound[r] # <<>>
        /\ up[r] # NoOutcome => posts[r] = 1

\* A call that got no response has settled, and the request is over.
C12_Witness ==
    \E r \in Reqs : pc[r] = "done" /\ up[r].kind = "noResponse" /\ posts[r] = 1

\* The file parts of the outbound payload: all but the first part.
OutFiles(r) == SubSeq(outbound[r], 2, Len(outbound[r]))

\* Part q of the payload carries file f.
Carries(q, f) ==
    /\ q.field = f.fieldname
    /\ q.filename = f.originalname
    /\ q.contentType = f.mimetype
    /\ q.path = f.path

\* C13: once the payload is assembled, every accepted file has a field name
\* that is exactly one of the four categories, the payload has as many file
\* parts as there are accepted files, each file is carried by a part of its
\* own (a one-to-one assignment of files to parts), and two files of the
\* same field name are carried in the order they were received.
C13_Partition ==
    \A r \in Reqs :
        outbound[r] # <<>> =>
            LET n == Len(files[r])
                fs == files[r]
                parts == OutFiles(r)
            IN  /\ \A i \in 1..n :
                     Cardinality({c \in AllowedFieldNames : fs[i].fieldname = c}) = 1
                /\ Len(parts) = n
                /\ \E pi \in [1..n -> 1..n] :
                     /\ \A i, j \in 1..n : i # j => pi[i] # pi[j]
                     /\ \A i \in 1..n : Carries(parts[pi[i]], fs[i])
                     /\ \A i, j \in 1..n :
                          (i < j /\ fs[i].fieldname = fs[j].fieldname) => pi[i] < pi[j]

\* Two different files were received under the same field name, and the
\* payload is assembled.
C13_Witness ==
    \E r \in Reqs :
        /\ Len(outbound[r]) = 3
        /\ files[r][1].fieldname = "commFiles"
        /\ files[r][2].fieldname = "commFiles"
        /\ files[r][1].originalname = "b.txt"
        /\ files[r][2].originalname = "a.txt"

\* The place of a field name in the order the handler appends in.
Rank(field) ==
    CASE field = "tddIrdFiles" -> 1
      [] field = "postmanFiles" -> 2
      [] field = "commFiles" -> 3
      [] field = "files" -> 4

\* C14: in both revisions the payload's first part is 'data' and no other
\* part is; the file parts follow with all tddIrdFiles parts before all
\* postmanFiles parts before all commFiles parts before all files parts,
\* whatever the order the files came in; every file part has the field name
\* of an accepted file with that file's originalname as filename and its
\* mimetype as contentType; and assembling again from the request's files
\* and form gives the payload that was sent.
C14_PartOrder ==
    \A r \in Reqs :
        outbound[r] # <<>> =>
            LET parts == OutFiles(r)
            IN  /\ outbound[r][1].field = "data"
                /\ \A p \in 1..Len(parts) : parts[p].field \in AllowedFieldNames
                /\ \A p, q \in 1..Len(parts) :
                     p < q => Rank(parts[p].field) <= Rank(parts[q].field)
                /\ \A p \in 1..Len(parts) :
                     \E i \in 1..Len(files[r]) : Carries(parts[p], files[r][i])
                /\ outbound[r] = assemble(rev, body[r], multipart[r], files[r])

\* A files upload came before a tddIrdFiles upload of another type, and the
\* payload is assembled.
C14_Witness ==
    \E r \in Reqs :
        /\ Len(outbound[r]) = 3
        /\ files[r][1].fieldname = "files"
        /\ files[r][2].fieldname = "tddIrdFiles"
        /\ files[r][1].mimetype # files[r][2].mimetype

\* C15: in both revisions the 'data' part carries hasFiles, and it is the
\* boolean true when the request has at least one accepted file and the
\* boolean false otherwise, whatever hasFiles the client sent, also when the
\* request carried no file list at all.
C15_DerivedHasFiles ==
    \A r \in Reqs :
        outbound[r] # <<>> =>
            LET data == outbound[r][1].json
            IN  /\ "hasFiles" \in DOMAIN data
                /\ data.hasFiles = IF Len(files[r]) > 0 THEN JsTrue ELSE JsFalse

\* In part_000 a multipart request has the derived boolean in its 'data'
\* part, whatever the client sent.
Part000MultipartHasFiles ==
    \A r \in Reqs :
        (rev = "part_000" /\ multipart[r] /\ outbound[r] # <<>>) =>
            outbound[r][1].json.hasFiles = IF Len(files[r]) > 0 THEN JsTrue ELSE JsFalse

URLOrder == <<"pageURL", "pageUrl", "confluencePageUrl", "url">>

\* The value of the first field of d, in URLOrder, that Has holds of; fb when
\* there is none.
FirstField(d, fb, Has(_)) ==
    IF \E k \in 1..Len(URLOrder) : Has(d[URLOrder[k]])
    THEN LET k == CHOOSE k \in 1..Len(URLOrder) :
                      /\ Has(d[URLOrder[k]])
                      /\ \A j \in 1..(k - 1) : ~Has(d[URLOrder[j]])
         IN  d[URLOrder[k]]
    ELSE fb

\* Both titles of the model with each run of blanks replaced by '+'.
PlusTitle(t) ==
    CASE t = <<"A", " ", "B">> -> <<"A", "+", "B">>
      [] t = <<"A", " ", "\t", "B">> -> <<"A", "+", "B">>

ExpectedFallback(b) ==
    <<"https://wiki.intel.com/display/">> \o b.wikiSpaceKey \o <<"/">>
        \o PlusTitle(b.pageToBeCreatedTitle)

Present(v) == v # Undefined

NonEmpty(v) == v # Undefined /\ v # <<>>

\* The request got a 2xx answer from the upstream in part_000.
Succeeded000(r) == rev = "part_000" /\ pc[r] = "done" /\ up[r].kind = "ok"

\* C16 as stated: on upstream success (part_000) the response's pageUrl is
\* the value of the first field present in the upstream body in the order
\* pageURL, pageUrl, confluencePageUrl, url, an empty value included; the
\* fallback URL only if none of the fields is present.
C16_FirstPresent ==
    \A r \in Reqs :
        Succeeded000(r) =>
            responses[r][1].body.pageUrl
                = FirstField(up[r].data, ExpectedFallback(body[r]), Present)

\* C16, amended: on upstream success (part_000) the response's pageUrl is
\* the value of the first field with a non-empty value in that order; a
\* field that is missing or empty is passed over, and the fallback URL (the
\* title with each run of blanks replaced by '+') is used only if none of
\* the fields has a non-empty value.
C16_FirstNonEmpty ==
    \A r \in Reqs :
        Succeeded000(r) =>
            /\ Len(responses[r]) = 1
            /\ responses[r][1].body.pageUrl
                 = FirstField(up[r].data, ExpectedFallback(body[r]), NonEmpty)

\* The upstream answered with an empty pageURL, no pageUrl, a
\* confluencePageUrl and a url, for a title with a run of two blanks.
C16_Witness ==
    \E r \in Reqs :
        /\ Succeeded000(r)
        /\ up[r].data.pageURL = <<>>
        /\ up[r].data.pageUrl = Undefined
        /\ NonEmpty(up[r].data.confluencePageUrl)
        /\ NonEmpty(up[r].data.url)
        /\ body[r].pageToBeCreatedTitle = <<"A", " ", "\t", "B">>

\* C17: in both revisions, when the upstream call succeeds the client gets
\* one response, status 200, JSON, with exactly the two fields message and
\* pageUrl, pageUrl being the extracted or fallback URL; the upstream body
\* is not what is sent.  (The text of message is left open here.)
C17_SuccessShape ==
    \A r \in Reqs :
        (pc[r] = "done" /\ up[r].kind = "ok") =>
            /\ Len(responses[r]) = 1
            /\ responses[r][1].status = 200
            /\ responses[r][1].ctype = "json"
            /\ DOMAIN responses[r][1].body = {"message", "pageUrl"}
            /\ responses[r][1].body.pageUrl
                 = FirstField(up[r].data, ExpectedFallback(body[r]), NonEmpty)

\* In part_000 the answer to an upstream success is 200 with message and
\* pageUrl, and the message reads "Confluence page generated successfully".
Part000SuccessShape ==
    \A r \in Reqs :
        Succeeded000(r) =>
            /\ responses[r][1].status = 200
            /\ DOMAIN responses[r][1].body = {"message", "pageUrl"}
            /\ responses[r][1].body.message = <<"Confluence page generated successfully">>

\* C18: in both revisions a request whose outbound call is in flight
\* eventually reaches its end, where the call has settled, the files were
\* unlinked and a response was sent, even if the upstream never answers.
C18_BoundedWait ==
    \A r \in Reqs :
        (pc[r] = "awaiting") ~> (pc[r] = "done" /\ responses[r] # <<>>)

\* In part_000 the call never stays in flight for ever.
Part000BoundedWait ==
    \A r \in Reqs :
        (rev = "part_000" /\ pc[r] = "awaiting") ~> (pc[r] = "done" /\ responses[r] # <<>>)

\* C19: when the client closed its connection after files were written and
\* before the outbound call settled, then once the call has settled, in
\* whatever way, an unlink was attempted on every file the request wrote and
\* the handler ran to its end.
C19_CleanupAfterClose ==
    \A r \in Reqs :
        (closed[r] /\ up[r] # NoOutcome) =>
            /\ pc[r] = "done"
            /\ \A i \in 1..Len(files[r]) : attempts[r][i] >= 1

\* The client left with two files written, and the call then failed.
C19_Witness ==
    \E r \in Reqs :
        /\ closed[r]
        /\ Len(files[r]) = 2
        /\ up[r].kind = "status"
        /\ pc[r] = "done"

\* The optional text fields of the form that the model carries.
OptionalFields == {"apiType", "appName"}

\* C20: for every form with both required fields the handler issues the
\* outbound call and answers no 400, whichever optional fields are missing or
\* empty; and every optional field is in the 'data' part with exactly the
\* value received (an empty one as the empty string) and is not in it when
\* the form did not have it.
C20_OptionalPassThrough ==
    \A r \in Reqs :
        (/\ handlerRan[r] /\ body[r].isObject
         /\ NonEmpty(body[r].pageToBeCreatedTitle)
         /\ NonEmpty(body[r].wikiSpaceKey)) =>
            /\ posts[r] = 1
            /\ \A i \in 1..Len(responses[r]) : responses[r][i].status # 400
            /\ LET data == outbound[r][1].json
               IN  \A k \in OptionalFields :
                     IF body[r][k] = Undefined
                     THEN k \notin DOMAIN data
                     ELSE k \in DOMAIN data /\ data[k] = body[r][k]

\* A form with both required fields, no apiType and an empty appName went
\* out.
C20_Witness ==
    \E r \in Reqs :
        /\ posts[r] = 1
        /\ body[r].apiType = Undefined
        /\ body[r].appName = <<>>
        /\ Len(files[r]) = 1

\* The request's outbound call was issued and has not settled.
CallInFlight(r) == posts[r] >= 1 /\ up[r] = NoOutcome

\* C21: in both revisions, while a request's axios.post is issued and not
\* yet settled, the request has attempted no unlink on any of its files and
\* has logged no deletion failure: every unlink of a file whose stream is in
\* the payload comes with or after the step in which the call settles.
C21_NoPrematureDeletion ==
    \A r \in Reqs :
        CallInFlight(r) =>
            /\ pc[r] = "awaiting"
            /\ Len(outbound[r]) = Len(files[r]) + 1
            /\ \A i \in 1..Len(files[r]) : attempts[r][i] = 0
            /\ cleanupErrors[r] = <<>>

\* The call of a request with two files is in flight and its read streams
\* have read the files.
C21_Witness ==
    \E r \in Reqs :
        /\ CallInFlight(r)
        /\ Len(files[r]) = 2
        /\ Len(streamed[r]) = 2

\* The deletion of the request's i-th file failed: the failure was logged,
\* or the file was tried and is still there.
DeletionFailed(r, i) ==
    \/ \E k \in 1..Len(cleanupErrors[r]) : cleanupErrors[r][k] = i
    \/ attempts[r][i] >= 1 /\ Remains(r, i)

\* C22: in both revisions, on the success path and on the error path, when
\* the handler has run its clean-up for a request with several files and
\* the deletion of one of them failed, an unlink was attempted on every file
\* of the request, those after the failing one included, and the handler
\* still answered.
C22_CleanupGoesOn ==
    \A r \in Reqs :
        (/\ handlerRan[r]
         /\ Len(files[r]) >= 2
         /\ \E i \in 1..Len(files[r]) : DeletionFailed(r, i)) =>
            /\ \A i \in 1..Len(files[r]) : attempts[r][i] >= 1
            /\ pc[r] = "done"
            /\ Len(responses[r]) = 1

\* server.js, success path: the unlink of the first of two files was
\* refused, and the second file is gone.
C22_Witness ==
    \E r \in Reqs :
        /\ rev = "server.js"
        /\ up[r].kind = "ok"
        /\ Len(files[r]) = 2
        /\ files[r][1].path # files[r][2].path
        /\ Remains(r, 1)
        /\ attempts[r][1] >= 1
        /\ store[files[r][2].path] = NoFile

====
